---- MODULE Spec2Model ----
(***************************************************************************)
(* Model of ocr_project.congressional.manifest.ManifestManager: one        *)
(* manager object holding an in-memory CollectionManifest, and the file    *)
(* manifest.json in its output directory; a second process with a manager  *)
(* of its own on the same directory.                                       *)
(* Model of ocr_project.dataset.export.DatasetExporter: the subset          *)
(* directories of markdown files under its output directory and the        *)
(* parquet files it writes under dataset/.                                  *)
(* Model of ocr_project.models.vllm_client.VLLMClient: process_image with  *)
(* its health check, retries and waits, and process_batch.                 *)
(* Model of ocr_project.dataset.processor.DatasetProcessor: process_subset *)
(* over the rows of a split and the markdown files it writes.              *)
(***************************************************************************)
EXTENDS Integers, FiniteSets, Sequences, TLC

VARIABLES
    mgr,        \* self.manifest: <<>> for None, <<m>> for a CollectionManifest m
    disk,       \* manifest.json: <<"absent">>, <<"json", d>> or <<"partial">>
    clock,      \* the latest value datetime.now() has returned
    ioFailures, \* number of file-system failures that have happened
    last,       \* the most recent call: its name, arguments and outcome
    other,      \* self.manifest of the manager of the process that is not running
    inflight,   \* the save_manifest between its open and the end of its write:
                \* <<>>, or <<who, document>> with who "self" or "other"
    tree,       \* the subset directories of the exporter's output_dir, in
                \* iterdir order, each with its markdown files in rglob order
    dataset,    \* the files under output_dir/dataset: name -> records written
    exp,        \* the most recent call on the exporter and its outcome
    client,     \* the VLLMClient: its max_retries, the call in progress and
                \* where it stands, or the outcome of its last call
    proc        \* the DatasetProcessor: its configuration, the markdown files
                \* it has written and the run of process_subset in progress

manifestVars == <<mgr, disk, clock, ioFailures, last, other, inflight>>

exportVars == <<tree, dataset, exp>>

ocrVars == <<client, proc>>

vars ==
    <<mgr, disk, clock, ioFailures, last, other, inflight, tree, dataset, exp,
      client, proc>>

----------------------------------------------------------------------------
(* Bounds of the model *)

MaxClock == 1

MaxIOFailures == 1

\* The most tokens the stem of a collected file name has.
MaxStem == 4

\* The most markdown files a subset directory holds.
MaxFiles == 3

----------------------------------------------------------------------------
(* types.py *)

None == "None"

NoneTime == -1

ProcessingStatus ==
    {"PENDING", "DOWNLOADING", "DOWNLOADED", "PROCESSING", "COMPLETED", "FAILED", "SKIPPED"}

ResourceType == {"PDF", "VIDEO", "AUDIO", "TEXT", "HTML"}

\* The value of a ProcessingStatus member (what mode="json" dumps).
StatusValue(s) ==
    CASE s = "PENDING" -> "pending"
      [] s = "DOWNLOADING" -> "downloading"
      [] s = "DOWNLOADED" -> "downloaded"
      [] s = "PROCESSING" -> "processing"
      [] s = "COMPLETED" -> "completed"
      [] s = "FAILED" -> "failed"
      [] s = "SKIPPED" -> "skipped"

\* ProcessingStatus(value): the member with that value.
StatusOfValue(v) == CHOOSE s \in ProcessingStatus : StatusValue(s) = v

TypeValue(t) ==
    CASE t = "PDF" -> "pdf"
      [] t = "VIDEO" -> "video"
      [] t = "AUDIO" -> "audio"
      [] t = "TEXT" -> "text"
      [] t = "HTML" -> "html"

TypeOfValue(v) == CHOOSE t \in ResourceType : TypeValue(t) = v

\* HttpUrl(s): pydantic normalises the URL; an empty path becomes "/".
HttpUrl(s) ==
    CASE s = "https://a.gov" -> <<"HttpUrl", "https://a.gov/">>
      [] s = "https://a.gov/" -> <<"HttpUrl", "https://a.gov/">>
      [] s = "https://b.gov/x" -> <<"HttpUrl", "https://b.gov/x">>

\* str(url) of an HttpUrl.
UrlStr(url) == url[2]

----------------------------------------------------------------------------
(* Inputs the callers draw from *)

\* Strings passed as URLs: the first is not in normalised form.
UrlInputs == {"https://a.gov", "https://a.gov/", "https://b.gov/x"}

VideoUrl == "https://a.gov/"

Metadatas == {"hearing-118671"}

DownloadInputs == {"DOWNLOADED", "FAILED"}

StageInputs == {"COMPLETED", "FAILED"}

ErrorInputs == {"timeout"}

\* ResourceRecord(url=..., resource_type=..., download_status=..., ...)
ResourceRecord(url, rtype, dl, ocr, tr, err) ==
    [url |-> url, resource_type |-> rtype, download_status |-> dl,
     ocr_status |-> ocr, transcription_status |-> tr, error_message |-> err]

\* The records handed to add_resource: a video and a PDF, as discovered
\* (download_status defaults to PENDING) or already downloaded.
RecordInputs ==
    { ResourceRecord(HttpUrl(s), IF UrlStr(HttpUrl(s)) = VideoUrl THEN "VIDEO" ELSE "PDF",
                     dl, None, None, None) :
        s \in UrlInputs, dl \in {"PENDING", "DOWNLOADED"} }

\* The keyword arguments of update_resource_status, <<download_status,
\* ocr_status, transcription_status, error_message>>: one stage per call,
\* with or without an error message; the PDF only has its download tracked.
ArgsInputs(url) ==
    IF url = VideoUrl
    THEN { a \in (DownloadInputs \cup {None}) \X (StageInputs \cup {None})
                  \X (StageInputs \cup {None}) \X (ErrorInputs \cup {None}) :
             Cardinality({ i \in 1..3 : a[i] # None }) <= 1 }
    ELSE (DownloadInputs \cup {None}) \X {None} \X {None} \X {None}

----------------------------------------------------------------------------
(* The JSON document written by save_manifest and read by load_manifest *)

JNull == <<"null">>

JStr(s) == <<"str", s>>

JIso(t) == <<"str", "iso", t>>

\* Mutant of ParseOptStatus: a null status reads as the default PENDING.
ParseOptStatusDefault(j) == IF j = JNull THEN "PENDING" ELSE StatusOfValue(j[2])

DumpOptStatus(s) == IF s = None THEN JNull ELSE JStr(StatusValue(s))

ParseOptStatus(j) == IF j = JNull THEN None ELSE StatusOfValue(j[2])

DumpOptStr(s) == IF s = None THEN JNull ELSE JStr(s)

ParseOptStr(j) == IF j = JNull THEN None ELSE j[2]

DumpOptTime(t) == IF t = NoneTime THEN JNull ELSE JIso(t)

ParseOptTime(j) == IF j = JNull THEN NoneTime ELSE j[3]

DumpRecord(r) ==
    [url |-> JStr(UrlStr(r.url)),
     resource_type |-> JStr(TypeValue(r.resource_type)),
     download_status |-> JStr(StatusValue(r.download_status)),
     ocr_status |-> DumpOptStatus(r.ocr_status),
     transcription_status |-> DumpOptStatus(r.transcription_status),
     error_message |-> DumpOptStr(r.error_message)]

ParseRecord(j) ==
    [url |-> HttpUrl(j.url[2]),
     resource_type |-> TypeOfValue(j.resource_type[2]),
     download_status |-> StatusOfValue(j.download_status[2]),
     ocr_status |-> ParseOptStatus(j.ocr_status),
     transcription_status |-> ParseOptStatus(j.transcription_status),
     error_message |-> ParseOptStr(j.error_message)]

\* self.manifest.model_dump(mode="json")
ModelDump(m) ==
    [metadata |-> JStr(m.metadata),
     started_at |-> JIso(m.started_at),
     completed_at |-> DumpOptTime(m.completed_at),
     last_updated |-> JIso(m.last_updated),
     resources |-> [k \in DOMAIN m.resources |-> DumpRecord(m.resources[k])],
     total_resources |-> m.total_resources,
     downloaded |-> m.downloaded,
     ocr_completed |-> m.ocr_completed,
     transcription_completed |-> m.transcription_completed,
     failed |-> m.failed]

\* CollectionManifest(**data)
ParseManifest(d) ==
    [metadata |-> d.metadata[2],
     started_at |-> d.started_at[3],
     completed_at |-> ParseOptTime(d.completed_at),
     last_updated |-> d.last_updated[3],
     resources |-> [k \in DOMAIN d.resources |-> ParseRecord(d.resources[k])],
     total_resources |-> d.total_resources,
     downloaded |-> d.downloaded,
     ocr_completed |-> d.ocr_completed,
     transcription_completed |-> d.transcription_completed,
     failed |-> d.failed]

----------------------------------------------------------------------------
(* manifest.py *)

NoResources == [k \in {} |-> None]

\* Mutant of NewManifest: the manifest found in manifest.json is taken up
\* again.
NewManifestResumed(metadata, now) ==
    IF disk[1] = "json" THEN ParseManifest(disk[2])
    ELSE [metadata |-> metadata, started_at |-> now, completed_at |-> NoneTime,
          last_updated |-> now, resources |-> [k \in {} |-> None],
          total_resources |-> 0, downloaded |-> 0, ocr_completed |-> 0,
          transcription_completed |-> 0, failed |-> 0]

\* CollectionManifest(metadata=metadata, started_at=now, last_updated=now)
NewManifest(metadata, now) ==
    [metadata |-> metadata,
     started_at |-> now,
     completed_at |-> NoneTime,
     last_updated |-> now,
     resources |-> NoResources,
     total_resources |-> 0,
     downloaded |-> 0,
     ocr_completed |-> 0,
     transcription_completed |-> 0,
     failed |-> 0]

\* The values a call of datetime.now() can return after the clock read t.
Readings(t) == { n \in t..MaxClock : n <= t + 1 }

\* The file-system outcomes of save_manifest that raise: mkdir or open fails,
\* or the write fails after open(..., "w") has truncated the file.
IOFaults == {"open_fails", "write_fails"}

\* Mutant of PutResource: resources.setdefault(url_str, resource).
PutResourceKeep(resources, key, r) ==
    [k \in DOMAIN resources \cup {key} |->
        IF k \in DOMAIN resources THEN resources[k] ELSE r]

\* self.manifest.resources[url_str] = resource
PutResource(resources, key, r) ==
    [k \in DOMAIN resources \cup {key} |-> IF k = key THEN r ELSE resources[k]]

\* Mutant of AddedManifest: total_resources += 1.
AddedManifestIncrement(m, r) ==
    [m EXCEPT !.resources = PutResource(m.resources, UrlStr(r.url), r),
              !.total_resources = @ + 1]

\* The manifest add_resource hands to save_manifest.
AddedManifest(m, r) ==
    LET res == PutResource(m.resources, UrlStr(r.url), r)
    IN [m EXCEPT !.resources = res, !.total_resources = Cardinality(DOMAIN res)]

\* Mutant of KnownUrl: the lookup normalises the URL first.
KnownUrlNormalised(m, url) == UrlStr(HttpUrl(url)) \in DOMAIN m.resources

\* url in self.manifest.resources
KnownUrl(m, url) == url \in DOMAIN m.resources

\* Mutant of ApplyStatus: error_message is assigned even when it is None.
ApplyStatusClearsError(r, dl, ocr, tr, err) ==
    [r EXCEPT
       !.download_status = IF dl # None THEN dl ELSE @,
       !.ocr_status = IF ocr # None THEN ocr ELSE @,
       !.transcription_status = IF tr # None THEN tr ELSE @,
       !.error_message = err]

\* The successive "if ... is not None" assignments of update_resource_status.
ApplyStatus(r, dl, ocr, tr, err) ==
    [r EXCEPT
       !.download_status = IF dl # None THEN dl ELSE @,
       !.ocr_status = IF ocr # None THEN ocr ELSE @,
       !.transcription_status = IF tr # None THEN tr ELSE @,
       !.error_message = IF err # None THEN err ELSE @]

\* Mutant of CountResource: a resource adds at most 1 to failed.
CountResourceOnce(acc, r) ==
    [downloaded |-> acc.downloaded + IF r.download_status = "DOWNLOADED" THEN 1 ELSE 0,
     ocr_completed |-> acc.ocr_completed + IF r.ocr_status = "COMPLETED" THEN 1 ELSE 0,
     transcription_completed |->
        acc.transcription_completed + IF r.transcription_status = "COMPLETED" THEN 1 ELSE 0,
     failed |-> acc.failed + IF \/ r.download_status = "FAILED"
                                \/ r.ocr_status = "FAILED"
                                \/ r.transcription_status = "FAILED"
                             THEN 1 ELSE 0]

\* One iteration of the loop of _update_statistics over a resource.
CountResource(acc, r) ==
    LET a1 == IF r.download_status = "DOWNLOADED"
              THEN [acc EXCEPT !.downloaded = @ + 1]
              ELSE IF r.download_status = "FAILED"
                   THEN [acc EXCEPT !.failed = @ + 1]
                   ELSE acc
        a2 == IF r.ocr_status = "COMPLETED"
              THEN [a1 EXCEPT !.ocr_completed = @ + 1]
              ELSE IF r.ocr_status = "FAILED"
                   THEN [a1 EXCEPT !.failed = @ + 1]
                   ELSE a1
        a3 == IF r.transcription_status = "COMPLETED"
              THEN [a2 EXCEPT !.transcription_completed = @ + 1]
              ELSE IF r.transcription_status = "FAILED"
                   THEN [a2 EXCEPT !.failed = @ + 1]
                   ELSE a2
    IN a3

RECURSIVE CountLoop(_, _, _)
\* for resource in self.manifest.resources.values(): ...
CountLoop(keys, resources, acc) ==
    IF keys = {} THEN acc
    ELSE LET k == CHOOSE x \in keys : TRUE
         IN CountLoop(keys \ {k}, resources, CountResource(acc, resources[k]))

\* _update_statistics
UpdateStatistics(m) ==
    LET zero == [downloaded |-> 0, ocr_completed |-> 0,
                 transcription_completed |-> 0, failed |-> 0]
        c == CountLoop(DOMAIN m.resources, m.resources, zero)
    IN [m EXCEPT !.downloaded = c.downloaded,
                 !.ocr_completed = c.ocr_completed,
                 !.transcription_completed = c.transcription_completed,
                 !.failed = c.failed]

\* The manifest update_resource_status hands to save_manifest.
UpdatedManifest(m, url, a) ==
    UpdateStatistics(
        [m EXCEPT !.resources[url] = ApplyStatus(@, a[1], a[2], a[3], a[4])])

\* Mutant of MarkedManifest: the statistics are refreshed as well.
MarkedManifestRecount(m, now) == UpdateStatistics([m EXCEPT !.completed_at = now])

\* The manifest mark_completed hands to save_manifest.
MarkedManifest(m, now) == [m EXCEPT !.completed_at = now]

\* Mutant of FileAfterSave: open(..., "x"), which never replaces a file.
FileAfterSaveExclusive(m, io) ==
    IF io = "ok" /\ disk[1] = "absent" THEN <<"json", ModelDump(m)>> ELSE disk

\* Mutant of FileAfterSave: the resources found in the file and unknown to
\* the manifest are kept in the document written.
FileAfterSaveMerged(m, io) ==
    CASE io = "ok" ->
           <<"json",
             IF disk[1] = "json"
             THEN [ModelDump(m) EXCEPT !.resources =
                     [k \in DOMAIN disk[2].resources \cup DOMAIN m.resources |->
                        IF k \in DOMAIN m.resources
                        THEN DumpRecord(m.resources[k]) ELSE disk[2].resources[k]]]
             ELSE ModelDump(m)>>
      [] io = "open_fails" -> disk
      [] io = "write_fails" -> <<"partial">>

\* The file after save_manifest's open(..., "w") and json.dump of manifest m.
FileAfterSave(m, io) ==
    CASE io = "ok" -> <<"json", ModelDump(m)>>
      [] io = "open_fails" -> disk
      [] io = "write_fails" -> <<"partial">>

\* save_manifest on manifest m: sets last_updated, then writes the file.
SaveManifest(m, now, io) ==
    /\ mgr' = << [m EXCEPT !.last_updated = now] >>
    /\ disk' = FileAfterSave([m EXCEPT !.last_updated = now], io)
    /\ clock' = now
    /\ ioFailures' = IF io = "ok" THEN ioFailures ELSE ioFailures + 1

----------------------------------------------------------------------------
(* The calls made on the manager *)

\* The record of a call: every field is set by every operation.  A call that
\* raises records its name and the exception only.
Call(op, outcome, url, rec, args, overwrote, prev_completed) ==
    [op |-> op, outcome |-> outcome, url |-> url, rec |-> rec, args |-> args,
     overwrote |-> overwrote, prev_completed |-> prev_completed,
     resource_type |-> None, result |-> None]

NoArgs == <<None, None, None, None>>

SimpleCall(op, outcome) == Call(op, outcome, None, <<>>, NoArgs, FALSE, NoneTime)

Raised(op, exception, url) == Call(op, exception, url, <<>>, NoArgs, FALSE, NoneTime)

\* A call of one of the read operations: its resource_type argument (None
\* when it has none or was not given) and the value it returned.
Query(op, rtype, result) ==
    [SimpleCall(op, "ok") EXCEPT !.resource_type = rtype, !.result = result]

\* No file under dataset/.
NoFiles == [n \in {} |-> <<>>]

\* DatasetExporter(output_dir, dataset_name): nothing called yet.
NoExport ==
    [op |-> "__init__", subset |-> None, split |-> None, max_shard_size_mb |-> 0,
     fault |-> 0, outcome |-> "ok", result |-> None, written |-> <<>>]

\* VLLMClient(max_retries=max_retries): no call made yet.
IdleClient(max_retries) ==
    [max_retries |-> max_retries, op |-> "__init__", images |-> <<>>, image |-> 0,
     pc |-> "idle", attempt |-> 0, requests |-> 0, waits |-> <<>>,
     served |-> <<>>, results |-> <<>>, outcome |-> "ok", result |-> <<>>]

\* max_retries: int = 3
DefaultMaxRetries == 3

\* No row of a dataset has been processed: no markdown file is written.
NoRun(overwrite) ==
    [overwrite |-> overwrite, files |-> [n \in {} |-> <<>>], running |-> FALSE,
     row |-> 0, sent |-> {}, yielded |-> <<>>]

OcrInit ==
    /\ client = IdleClient(DefaultMaxRetries)
    /\ proc = NoRun(FALSE)

ManifestInit ==
    /\ mgr = <<>>
    /\ disk = <<"absent">>
    /\ clock = 0
    /\ ioFailures = 0
    /\ last = SimpleCall("__init__", "ok")
    /\ other = <<>>
    /\ inflight = <<>>

\* A manager on an output directory without markdown files.
Init ==
    /\ ManifestInit
    /\ tree = <<>>
    /\ dataset = NoFiles
    /\ exp = NoExport
    /\ OcrInit

\* ManifestManager(output_dir): a new manager on the same directory.
NewManager ==
    /\ mgr' = <<>>
    /\ last' = SimpleCall("__init__", "ok")
    /\ UNCHANGED <<disk, clock, ioFailures>>

create_manifest(ios) ==
    \E md \in Metadatas : \E now \in Readings(clock) :
    \E now2 \in Readings(now) : \E io \in ios :
        /\ SaveManifest(NewManifest(md, now), now2, io)
        /\ last' = SimpleCall("create_manifest", IF io = "ok" THEN "ok" ELSE "OSError")

load_manifest ==
    /\ UNCHANGED <<disk, clock, ioFailures>>
    /\ CASE disk[1] = "absent" ->
              /\ mgr' = mgr
              /\ last' = SimpleCall("load_manifest", "FileNotFoundError")
         [] disk[1] = "partial" ->
              /\ mgr' = mgr
              /\ last' = SimpleCall("load_manifest", "JSONDecodeError")
         [] disk[1] = "json" ->
              /\ mgr' = << ParseManifest(disk[2]) >>
              /\ last' = SimpleCall("load_manifest", "ok")

save_manifest(ios) ==
    IF mgr = <<>>
    THEN /\ last' = SimpleCall("save_manifest", "ValueError")
         /\ UNCHANGED <<mgr, disk, clock, ioFailures>>
    ELSE \E now \in Readings(clock) : \E io \in ios :
            /\ SaveManifest(mgr[1], now, io)
            /\ last' = SimpleCall("save_manifest", IF io = "ok" THEN "ok" ELSE "OSError")

add_resource(ios, records) ==
    \E r \in records :
        IF mgr = <<>>
        THEN /\ last' = SimpleCall("add_resource", "ValueError")
             /\ UNCHANGED <<mgr, disk, clock, ioFailures>>
        ELSE \E now \in Readings(clock) : \E io \in ios :
                /\ SaveManifest(AddedManifest(mgr[1], r), now, io)
                /\ last' = IF io = "ok"
                           THEN Call("add_resource", "ok", UrlStr(r.url), <<r>>, NoArgs,
                                     UrlStr(r.url) \in DOMAIN mgr[1].resources, NoneTime)
                           ELSE SimpleCall("add_resource", "OSError")

update_resource_status(ios, urls) ==
    \E url \in urls :
        IF mgr = <<>>
        THEN /\ last' = SimpleCall("update_resource_status", "ValueError")
             /\ UNCHANGED <<mgr, disk, clock, ioFailures>>
        ELSE IF ~KnownUrl(mgr[1], url)
        THEN /\ last' = Raised("update_resource_status", "KeyError", url)
             /\ UNCHANGED <<mgr, disk, clock, ioFailures>>
        ELSE \E a \in ArgsInputs(url) : \E now \in Readings(clock) : \E io \in ios :
                /\ SaveManifest(UpdatedManifest(mgr[1], url, a), now, io)
                /\ last' = IF io = "ok"
                           THEN Call("update_resource_status", "ok", url, <<>>, a,
                                     FALSE, NoneTime)
                           ELSE SimpleCall("update_resource_status", "OSError")

mark_completed(ios) ==
    IF mgr = <<>>
    THEN /\ last' = SimpleCall("mark_completed", "ValueError")
         /\ UNCHANGED <<mgr, disk, clock, ioFailures>>
    ELSE \E now \in Readings(clock) : \E now2 \in Readings(now) : \E io \in ios :
            /\ SaveManifest(MarkedManifest(mgr[1], now), now2, io)
            /\ last' = IF io = "ok"
                       THEN Call("mark_completed", "ok", None, <<>>, NoArgs, FALSE,
                                 mgr[1].completed_at)
                       ELSE SimpleCall("mark_completed", "OSError")

\* The resource_type arguments of the two filters.
TypeInputs == {None, "PDF", "VIDEO"}

\* Mutant of WithDownloadStatus: the resource_type argument is ignored.
WithDownloadStatusAnyType(m, status, rtype) ==
    { m.resources[k] : k \in { x \in DOMAIN m.resources :
                                 m.resources[x].download_status = status } }

\* The loop of get_pending_resources and get_downloaded_resources: the records
\* of the list it builds, those with the given download_status and, when a
\* resource_type is given, that type.
WithDownloadStatus(m, status, rtype) ==
    { m.resources[k] : k \in { x \in DOMAIN m.resources :
                                 /\ m.resources[x].download_status = status
                                 /\ (rtype = None \/ m.resources[x].resource_type = rtype) } }

\* The dictionary get_statistics returns.
Statistics(m) ==
    [total_resources |-> m.total_resources,
     downloaded |-> m.downloaded,
     ocr_completed |-> m.ocr_completed,
     transcription_completed |-> m.transcription_completed,
     failed |-> m.failed,
     pending |-> m.total_resources - m.downloaded - m.failed]

get_pending_resources ==
    /\ UNCHANGED <<mgr, disk, clock, ioFailures>>
    /\ \E rtype \in TypeInputs :
          last' = IF mgr = <<>>
                  THEN SimpleCall("get_pending_resources", "ValueError")
                  ELSE Query("get_pending_resources", rtype,
                             WithDownloadStatus(mgr[1], "PENDING", rtype))

get_downloaded_resources ==
    /\ UNCHANGED <<mgr, disk, clock, ioFailures>>
    /\ \E rtype \in TypeInputs :
          last' = IF mgr = <<>>
                  THEN SimpleCall("get_downloaded_resources", "ValueError")
                  ELSE Query("get_downloaded_resources", rtype,
                             WithDownloadStatus(mgr[1], "DOWNLOADED", rtype))

get_statistics ==
    /\ UNCHANGED <<mgr, disk, clock, ioFailures>>
    /\ last' = IF mgr = <<>>
               THEN SimpleCall("get_statistics", "ValueError")
               ELSE Query("get_statistics", None, Statistics(mgr[1]))

\* A call made by the running process from start to end: the manager of the
\* other process and a write in progress are left as they are.
Alone == UNCHANGED <<other, inflight, tree, dataset, exp, client, proc>>

\* The calls on a file system that does not fail.
CreateManifest == create_manifest({"ok"})

LoadManifest == load_manifest

SaveManifestCall == save_manifest({"ok"})

AddResource == add_resource({"ok"}, RecordInputs)

UpdateResourceStatus == update_resource_status({"ok"}, UrlInputs)

MarkCompleted == mark_completed({"ok"})

GetPendingResources == get_pending_resources

GetDownloadedResources == get_downloaded_resources

GetStatistics == get_statistics

Next ==
    \/ NewManager /\ Alone
    \/ CreateManifest /\ Alone
    \/ LoadManifest /\ Alone
    \/ SaveManifestCall /\ Alone
    \/ AddResource /\ Alone
    \/ UpdateResourceStatus /\ Alone
    \/ MarkCompleted /\ Alone

\* A manager on a file system that does not fail.
Spec == Init /\ [][Next]_vars

----------------------------------------------------------------------------
(* The same manager when save_manifest can raise OSError.  The workload is  *)
(* the discovery of the PDF resource and the tracking of its download.      *)

PdfUrl == "https://b.gov/x"

PdfRecords == { r \in RecordInputs : UrlStr(r.url) = PdfUrl }

CanFail == ioFailures < MaxIOFailures

AddPdf == add_resource({"ok"}, PdfRecords)

UpdatePdf == update_resource_status({"ok"}, {PdfUrl})

CreateManifestFault == CanFail /\ create_manifest(IOFaults)

SaveManifestFault == CanFail /\ mgr # <<>> /\ save_manifest(IOFaults)

AddPdfFault == CanFail /\ mgr # <<>> /\ add_resource(IOFaults, PdfRecords)

UpdatePdfFault ==
    /\ CanFail
    /\ mgr # <<>>
    /\ KnownUrl(mgr[1], PdfUrl)
    /\ update_resource_status(IOFaults, {PdfUrl})

MarkCompletedFault == CanFail /\ mgr # <<>> /\ mark_completed(IOFaults)

NextIO ==
    \/ NewManager /\ Alone
    \/ CreateManifest /\ Alone
    \/ LoadManifest /\ Alone
    \/ SaveManifestCall /\ Alone
    \/ AddPdf /\ Alone
    \/ UpdatePdf /\ Alone
    \/ MarkCompleted /\ Alone
    \/ GetPendingResources /\ Alone
    \/ GetDownloadedResources /\ Alone
    \/ GetStatistics /\ Alone
    \/ CreateManifestFault /\ Alone
    \/ SaveManifestFault /\ Alone
    \/ AddPdfFault /\ Alone
    \/ UpdatePdfFault /\ Alone
    \/ MarkCompletedFault /\ Alone

SpecIO == Init /\ [][NextIO]_vars

----------------------------------------------------------------------------
(* The manager with its read operations: resources of both types are added  *)
(* as they are discovered, and the download of the PDF is tracked.          *)

\* The records of newly discovered resources: download_status is PENDING.
DiscoveredRecords == { r \in RecordInputs : r.download_status = "PENDING" }

AddDiscovered == add_resource({"ok"}, DiscoveredRecords)

NextQuery ==
    \/ NewManager /\ Alone
    \/ CreateManifest /\ Alone
    \/ LoadManifest /\ Alone
    \/ SaveManifestCall /\ Alone
    \/ AddDiscovered /\ Alone
    \/ UpdatePdf /\ Alone
    \/ MarkCompleted /\ Alone
    \/ GetPendingResources /\ Alone
    \/ GetDownloadedResources /\ Alone
    \/ GetStatistics /\ Alone

SpecQuery == Init /\ [][NextQuery]_vars

\* The video from its discovery through its download, OCR and
\* transcription, with the statistics read along the way.
VideoRecords == { r \in DiscoveredRecords : UrlStr(r.url) = VideoUrl }

AddVideo == add_resource({"ok"}, VideoRecords)

UpdateVideo == update_resource_status({"ok"}, {VideoUrl})

NextStats ==
    \/ CreateManifest /\ Alone
    \/ LoadManifest /\ Alone
    \/ AddVideo /\ Alone
    \/ UpdateVideo /\ Alone
    \/ GetStatistics /\ Alone

SpecStats == Init /\ [][NextStats]_vars

----------------------------------------------------------------------------
(* Two processes, each with a ManifestManager on the same directory.  The   *)
(* calls act on the manager of the running process; the scheduler switches  *)
(* between the two.  Nothing in the code locks manifest.json.               *)

SwitchProcess ==
    /\ mgr' = other
    /\ other' = mgr
    /\ inflight' = IF inflight = <<>> THEN <<>>
                   ELSE <<IF inflight[1] = "self" THEN "other" ELSE "self", inflight[2]>>
    /\ last' = SimpleCall("switch", "ok")
    /\ UNCHANGED <<disk, clock, ioFailures>>
    /\ UNCHANGED <<exportVars, ocrVars>>

\* The processes are switched between calls only.
NextTwo ==
    \/ CreateManifest /\ Alone
    \/ LoadManifest /\ Alone
    \/ SaveManifestCall /\ Alone
    \/ AddDiscovered /\ Alone
    \/ UpdatePdf /\ Alone
    \/ SwitchProcess

SpecTwo == Init /\ [][NextTwo]_vars

----------------------------------------------------------------------------
(* The two processes when a switch, or the end of the process, can fall     *)
(* inside save_manifest, between its open(..., "w") and the end of its      *)
(* json.dump.                                                               *)

\* Mutant of FileAfterOpen: the document goes to a temporary file that is
\* renamed over manifest.json at the end.
FileAfterOpenTemporary(d) == d

\* manifest.json after open(self.manifest_path, "w"): the file is truncated,
\* and until the write has ended it holds no complete JSON document.
FileAfterOpen(d) == <<"partial">>

\* manifest.json after the write of document doc has ended.  When another
\* process has written the file since this one opened it, this write lands
\* over that content from offset 0: the result is doc, or doc followed by
\* the rest of a longer content, which is no JSON document.
FilesAfterWrite(d, doc) ==
    IF d = FileAfterOpen(d) THEN { <<"json", doc>> } ELSE { <<"json", doc>>, <<"partial">> }

\* The running process is not inside save_manifest.
Running == IF inflight = <<>> THEN TRUE ELSE inflight[1] = "other"

\* save_manifest up to and including its open(..., "w").
BeginSave ==
    /\ mgr # <<>>
    /\ inflight = <<>>
    /\ \E now \in Readings(clock) :
          /\ mgr' = << [mgr[1] EXCEPT !.last_updated = now] >>
          /\ clock' = now
          /\ inflight' = <<"self", ModelDump([mgr[1] EXCEPT !.last_updated = now])>>
    /\ disk' = FileAfterOpen(disk)
    /\ last' = SimpleCall("save_manifest", "writing")
    /\ UNCHANGED <<ioFailures, other>>
    /\ UNCHANGED <<exportVars, ocrVars>>

\* The json.dump of save_manifest and the end of its with block.
EndSave ==
    /\ inflight # <<>>
    /\ inflight[1] = "self"
    /\ disk' \in FilesAfterWrite(disk, inflight[2])
    /\ inflight' = <<>>
    /\ last' = SimpleCall("save_manifest", "ok")
    /\ UNCHANGED <<mgr, clock, ioFailures, other>>
    /\ UNCHANGED <<exportVars, ocrVars>>

\* The process is ended inside save_manifest; what runs next in its place
\* starts with a new manager.
Interrupt ==
    /\ inflight # <<>>
    /\ inflight[1] = "self"
    /\ mgr' = <<>>
    /\ inflight' = <<>>
    /\ last' = SimpleCall("save_manifest", "interrupted")
    /\ UNCHANGED <<disk, clock, ioFailures, other>>
    /\ UNCHANGED <<exportVars, ocrVars>>

NextTorn ==
    \/ Running /\ CreateManifest /\ Alone
    \/ Running /\ LoadManifest /\ Alone
    \/ Running /\ AddPdf /\ Alone
    \/ BeginSave
    \/ EndSave
    \/ Interrupt
    \/ SwitchProcess

SpecTorn == Init /\ [][NextTorn]_vars

----------------------------------------------------------------------------
(* dataset/export.py *)

\* The units a megabyte (1024 * 1024 bytes) is counted in: sizes are given in
\* halves of a megabyte, so that a size can lie between two whole numbers of
\* megabytes.  The comparison and the division of export_all are exact on
\* such sizes, as they are in floating point for every size a file can have.
MbUnits == 2

\* The sizes of the markdown texts, in those units.
Sizes == {1, 3}

\* The values of max_shard_size_mb.
ShardSizes == {1, 2}

\* The names of the markdown files of the export runs, each the tokens of its
\* stem followed by its suffix.
FileNames == << <<"a", ".md">>, <<"b", ".md">>, <<"c", ".md">>, <<"d", ".md">> >>

\* A text of n units.
Text(n) == [i \in 1..n |-> "x"]

\* A markdown file: the parts of its path relative to the subset directory,
\* the last of them its name, and its text.
MdFile(dir, name, text) == [parts |-> dir \o <<name>>, text |-> text]

\* The lists of markdown files rglob finds in a subset directory: the files
\* at its root, then those of its directory test/.
FileLists ==
    UNION { { [i \in 1..n |->
                 MdFile(IF i <= k THEN <<>> ELSE <<"test">>, FileNames[i],
                        Text(size[i]))] :
                k \in 0..n, size \in [1..n -> Sizes] } : n \in 0..MaxFiles }

SubsetDir(name, files) == [name |-> name, files |-> files]

\* The output directories exported: a subset "hearings" next to a subset
\* "reports" that is empty or holds one large file.
Trees ==
    { <<SubsetDir("hearings", h), SubsetDir("reports", r)>> :
        h \in FileLists, r \in { <<>>, <<MdFile(<<>>, FileNames[1], Text(3))>> } }

\* md_file.stem: the name without its suffix.
Stem(name) == SubSeq(name, 1, Len(name) - 1)

Digits == {"0", "7"}

DigitValue(c) == IF c = "7" THEN 7 ELSE 0

\* s.strip(): without the white space at its two ends.
Strip(s) ==
    LET inner == { i \in 1..Len(s) : s[i] # " " }
    IN IF inner = {} THEN <<>>
       ELSE SubSeq(s, CHOOSE i \in inner : \A j \in inner : i <= j,
                      CHOOSE i \in inner : \A j \in inner : j <= i)

RECURSIVE DecimalValue(_)
\* The value of digits that may have underscores between them.
DecimalValue(s) ==
    IF s = <<>> THEN 0
    ELSE IF s[Len(s)] = "_" THEN DecimalValue(SubSeq(s, 1, Len(s) - 1))
    ELSE 10 * DecimalValue(SubSeq(s, 1, Len(s) - 1)) + DigitValue(s[Len(s)])

\* int(s) of Python for a string s: white space around the literal is
\* dropped, a sign may come first, and the digits may be grouped by single
\* underscores.  <<n>> for the integer n, <<>> for ValueError.
PyInt(s) ==
    LET t == Strip(s)
        signed == IF t = <<>> THEN FALSE ELSE t[1] \in {"-", "+"}
        body == IF signed THEN Tail(t) ELSE t
        literal == /\ body # <<>>
                   /\ \A i \in 1..Len(body) : body[i] \in Digits \cup {"_"}
                   /\ body[1] # "_"
                   /\ body[Len(body)] # "_"
                   /\ \A i \in 1..Len(body) - 1 : ~(body[i] = "_" /\ body[i + 1] = "_")
    IN IF ~literal THEN <<>>
       ELSE IF signed /\ t[1] = "-" THEN << 0 - DecimalValue(body) >>
       ELSE << DecimalValue(body) >>

\* Mutant of LastPage: the first "_page" of the stem.
FirstPage(filename) ==
    LET at == { i \in 1..Len(filename) : filename[i] = "_page" }
    IN IF at = {} THEN 0 ELSE CHOOSE i \in at : \A j \in at : i <= j

\* Where filename.rsplit("_page", 1) splits: the last "_page" of the stem,
\* 0 when "_page" is not in it.
LastPage(filename) ==
    LET at == { i \in 1..Len(filename) : filename[i] = "_page" }
    IN IF at = {} THEN 0 ELSE CHOOSE i \in at : \A j \in at : j <= i

\* base_name and page_num of a stem; page_num is <<>> for None.
PageOf(filename) ==
    LET at == LastPage(filename)
        page_num == IF at = 0 THEN <<>>
                    ELSE PyInt(SubSeq(filename, at + 1, Len(filename)))
    IN [source_file |-> IF page_num = <<>> THEN filename
                        ELSE SubSeq(filename, 1, at - 1),
        page_number |-> page_num]

\* Mutant of SplitOf: every file is of the default split.
SplitOfDefault(parts) == "train"

\* split = parts[0] if len(parts) > 1 else "train"
SplitOf(parts) == IF Len(parts) > 1 THEN parts[1] ELSE "train"

\* The record collect_files builds for a markdown file.
FileRecord(file) ==
    [id |-> file.parts,
     source_file |-> PageOf(Stem(file.parts[Len(file.parts)])).source_file,
     split |-> SplitOf(file.parts),
     page_number |-> PageOf(Stem(file.parts[Len(file.parts)])).page_number,
     text |-> file.text,
     text_length |-> Len(file.text),
     file_path |-> file.parts]

collect_files(files) == [i \in 1..Len(files) |-> FileRecord(files[i])]

RECURSIVE MemoryUsage(_)
\* df.memory_usage(deep=True).sum() of the frame of the records, in units.
MemoryUsage(records) ==
    IF records = <<>> THEN 0
    ELSE Head(records).text_length + MemoryUsage(Tail(records))

RECURSIVE SplitKeys(_, _)
\* The keys of the dictionary splits, in the order they are inserted.
SplitKeys(records, seen) ==
    IF records = <<>> THEN seen
    ELSE SplitKeys(Tail(records),
                   IF \E i \in 1..Len(seen) : seen[i] = Head(records).split
                   THEN seen ELSE Append(seen, Head(records).split))

RecordsOfSplit(records, split) == SelectSeq(records, LAMBDA r : r.split = split)

RECURSIVE Flatten(_)
Flatten(seqs) == IF seqs = <<>> THEN <<>> ELSE Head(seqs) \o Flatten(Tail(seqs))

\* f"{subset_name}-{split}.parquet"
SingleName(subset, split) == <<subset, "-", split, ".parquet">>

\* f"{subset_name}-{split}-{i:05d}-of-{num_shards:05d}.parquet"
ShardName(subset, split, i, n) == <<subset, "-", split, "-", i, "-of-", n, ".parquet">>

\* f"{subset_name}.parquet"
SubsetName(subset) == <<subset, ".parquet">>

\* size_mb > max_shard_size_mb
NeedsShards(records, max_shard_size_mb) ==
    MemoryUsage(records) > max_shard_size_mb * MbUnits

\* num_shards = int(size_mb / max_shard_size_mb) + 1
NumShards(records, max_shard_size_mb) ==
    (MemoryUsage(records) \div (max_shard_size_mb * MbUnits)) + 1

\* Mutant of ShardRecords: the last shard is cut like the others.
ShardRecordsEqual(records, i, num_shards) ==
    LET shard_size == Len(records) \div num_shards
    IN SubSeq(records, i * shard_size + 1, i * shard_size + shard_size)

\* split_records[start_idx:end_idx] of shard i
ShardRecords(records, i, num_shards) ==
    LET shard_size == Len(records) \div num_shards
        start_idx == i * shard_size
        end_idx == IF i < num_shards - 1 THEN start_idx + shard_size ELSE Len(records)
    IN SubSeq(records, start_idx + 1, end_idx)

\* A call of create_parquet: the file it is to write and the records.
Write(subset, split, name, records) ==
    [subset |-> subset, split |-> split, name |-> name, records |-> records]

\* The calls of create_parquet export_all makes for one split, in order.
SplitWrites(subset, split, records, max_shard_size_mb) ==
    IF NeedsShards(records, max_shard_size_mb)
    THEN LET n == NumShards(records, max_shard_size_mb)
         IN [k \in 1..n |->
               Write(subset, split, ShardName(subset, split, k - 1, n),
                     ShardRecords(records, k - 1, n))]
    ELSE << Write(subset, split, SingleName(subset, split), records) >>

\* The calls of create_parquet export_all makes for one subset directory; none
\* when collect_files finds no file.
SubsetWrites(dir, max_shard_size_mb) ==
    LET records == collect_files(dir.files)
        keys == SplitKeys(records, <<>>)
    IN Flatten([k \in 1..Len(keys) |->
                  SplitWrites(dir.name, keys[k], RecordsOfSplit(records, keys[k]),
                              max_shard_size_mb)])

\* The calls of create_parquet of a whole export_all, in order.
ExportWrites(t, max_shard_size_mb) ==
    Flatten([d \in 1..Len(t) |-> SubsetWrites(t[d], max_shard_size_mb)])

\* The dictionary results: the files of every subset that has records.
Results(t, max_shard_size_mb) ==
    [name \in { t[d].name : d \in { x \in 1..Len(t) : t[x].files # <<>> } } |->
        LET d == CHOOSE x \in 1..Len(t) : t[x].name = name
            w == SubsetWrites(t[d], max_shard_size_mb)
        IN [k \in 1..Len(w) |-> w[k].name]]

\* create_parquet raises on an empty list of records: the frame has no
\* columns, and Table.from_pandas does not find the columns of the schema.
\* It raises OSError when the fault is injected at this call.  The position of
\* the first call that raises, 0 when none does.
FirstFailure(writes, fault) ==
    LET bad == { k \in 1..Len(writes) : writes[k].records = <<>> \/ k = fault }
    IN IF bad = {} THEN 0 ELSE CHOOSE k \in bad : \A j \in bad : k <= j

\* dataset/ after the calls of create_parquet in done.
FilesAfter(files, done) ==
    [n \in DOMAIN files \cup { done[k].name : k \in 1..Len(done) } |->
        IF \E k \in 1..Len(done) : done[k].name = n
        THEN done[CHOOSE k \in 1..Len(done) :
                    /\ done[k].name = n
                    /\ \A j \in k + 1..Len(done) : done[j].name # n].records
        ELSE files[n]]

Written(done) ==
    [k \in 1..Len(done) |->
        [subset |-> done[k].subset, split |-> done[k].split, name |-> done[k].name]]

\* export_all(max_shard_size_mb), with an OSError injected at call number
\* fault of create_parquet (0: none), a call that is reached and has records
\* to write.  No exception is caught: the first call that raises ends
\* export_all.
export_all(max_shard_size_mb, fault) ==
    \E writes \in { ExportWrites(tree, max_shard_size_mb) } :
    \E f \in { FirstFailure(writes, fault) } :
    \E done \in { IF f = 0 THEN writes ELSE SubSeq(writes, 1, f - 1) } :
       /\ fault # 0 => (f = fault /\ writes[fault].records # <<>>)
       /\ dataset' = FilesAfter(dataset, done)
       /\ exp' = [op |-> "export_all", subset |-> None, split |-> None,
                  max_shard_size_mb |-> max_shard_size_mb, fault |-> fault,
                  outcome |-> IF f = 0 THEN "ok"
                              ELSE IF writes[f].records = <<>> THEN "KeyError"
                              ELSE "OSError",
                  result |-> IF f = 0 THEN Results(tree, max_shard_size_mb) ELSE None,
                  written |-> Written(done)]
       /\ UNCHANGED tree
       /\ UNCHANGED <<manifestVars, ocrVars>>

\* The <<subset_name, split>> arguments of export_subset: a subset as a
\* whole, one of its splits, a split it may not have, and a subset there is
\* no directory of.
SubsetInputs ==
    { <<"hearings", None>>, <<"hearings", "test">>, <<"reports", "train">>,
      <<"minutes", None>> }

\* Mutant of SplitFilter: the records are not filtered.
SplitFilterNone(records, split) == records

\* if split: records = [r for r in records if r["split"] == split]
SplitFilter(records, split) ==
    IF split = None THEN records ELSE RecordsOfSplit(records, split)

export_subset(subset_name, split) ==
    LET found == { d \in 1..Len(tree) : tree[d].name = subset_name }
        records == SplitFilter(collect_files(tree[CHOOSE d \in found : TRUE].files), split)
        name == IF split = None THEN SubsetName(subset_name)
                ELSE SingleName(subset_name, split)
        raises == IF found = {} THEN TRUE ELSE records = <<>>
        done == IF raises THEN <<>> ELSE << Write(subset_name, split, name, records) >>
    IN /\ dataset' = FilesAfter(dataset, done)
       /\ exp' = [op |-> "export_subset", subset |-> subset_name, split |-> split,
                  max_shard_size_mb |-> 0, fault |-> 0,
                  outcome |-> IF raises THEN "ValueError" ELSE "ok",
                  result |-> IF raises THEN None ELSE name,
                  written |-> Written(done)]
       /\ UNCHANGED tree
       /\ UNCHANGED <<manifestVars, ocrVars>>

InitExport ==
    /\ ManifestInit
    /\ tree \in Trees
    /\ dataset = NoFiles
    /\ exp = NoExport
    /\ OcrInit

ExportAll == \E m \in ShardSizes : export_all(m, 0)

\* export_all when the write of one of its files fails.
ExportAllFault ==
    \E m \in ShardSizes : \E fault \in 1..Len(ExportWrites(tree, m)) : export_all(m, fault)

ExportSubset == \E a \in SubsetInputs : export_subset(a[1], a[2])

NextExport ==
    \/ ExportAll
    \/ ExportAllFault
    \/ ExportSubset

SpecExport == InitExport /\ [][NextExport]_vars

\* export_all called again and again on the same output directory, with one
\* max_shard_size_mb or another.
NextRerun == ExportAll

SpecRerun == InitExport /\ [][NextRerun]_vars

----------------------------------------------------------------------------
(* collect_files on one markdown file, for the names and places a file can  *)
(* have under the subset directory.                                         *)

\* What a stem is made of: a letter, the substring "_page", digits, a sign,
\* an underscore and a space.
StemTokens == {"a", "_page", "0", "7", "-", "_", " "}

Stems == UNION { [1..n -> StemTokens] : n \in 1..MaxStem }

\* The directory of the file under the subset directory.
CollectDirs == { <<>>, <<"test">>, <<"validation", "scans">> }

CollectTexts == { Text(0), Text(2) }

InitCollect ==
    /\ ManifestInit
    /\ tree \in { << SubsetDir("hearings", << MdFile(d, stem \o <<".md">>, t) >>) >> :
                    d \in CollectDirs, stem \in Stems, t \in CollectTexts }
    /\ dataset = NoFiles
    /\ exp = NoExport
    /\ OcrInit

CollectFiles ==
    \E d \in 1..Len(tree) :
       /\ exp' = [NoExport EXCEPT !.op = "collect_files",
                                  !.subset = tree[d].name,
                                  !.result = collect_files(tree[d].files)]
       /\ UNCHANGED <<tree, dataset>>
       /\ UNCHANGED <<manifestVars, ocrVars>>

NextCollect == CollectFiles

SpecCollect == InitCollect /\ [][NextCollect]_vars

----------------------------------------------------------------------------
(* models/vllm_client.py: one VLLMClient.  process_image is followed step   *)
(* by step, from its health check to its return or its exception;         *)
(* process_batch calls it for one image after the other.                  *)

\* The largest max_retries a client is built with.
MaxRetries == 3

\* The most images a batch holds.
MaxImages == 2

Images == {"p1", "p2"}

Batches == UNION { [1..n -> Images] : n \in 0..MaxImages }

\* What a completion request comes back with: a choice with the text of the
\* image, a choice whose content is None, no choice, or an exception of the
\* OpenAI client (time-out, connection, status).
Responses == {"text", "null", "empty", "raise"}

\* response.choices[0].message.content or ""
Content(image, response) == IF response = "text" THEN <<"text of", image>> ELSE <<>>

RECURSIVE Pow2(_)
Pow2(k) == IF k = 0 THEN 1 ELSE 2 * Pow2(k - 1)

\* Mutant of WaitTime: the same wait after every failure.
WaitTimeFixed(attempt) == 1

\* wait_time = 2**attempt
WaitTime(attempt) == Pow2(attempt)

\* Mutant of BatchError: the empty string the comment in the code speaks of.
BatchErrorEmpty(e) == <<>>

\* f"Error processing image: {e}"
BatchError(e) == <<"Error processing image: ", e>>

\* The client when a call with these images begins.
Begin(op, images) ==
    [client EXCEPT !.op = op, !.images = images,
                   !.image = IF images = <<>> THEN 0 ELSE 1,
                   !.pc = IF images = <<>> THEN "idle" ELSE "health",
                   !.attempt = 0, !.requests = 0, !.waits = <<>>,
                   !.served = <<>>, !.results = <<>>,
                   !.outcome = IF images = <<>> THEN "ok" ELSE "running",
                   !.result = <<>>]

\* The client c when process_image ends for the current image, with a text
\* (outcome "ok") or with an exception.  In process_image the call is over;
\* in process_batch the text or the error value is appended to results and
\* the loop goes on with the next image, or returns results after the last.
EndImage(c, event, outcome, text) ==
    LET served == Append(c.served, event)
    IN IF c.op = "process_image"
       THEN [c EXCEPT !.pc = "idle", !.served = served,
                           !.outcome = outcome, !.result = text]
       ELSE LET results == Append(c.results,
                                  IF outcome = "ok" THEN text ELSE BatchError(outcome))
            IN IF c.image < Len(c.images)
               THEN [c EXCEPT !.pc = "health", !.served = served,
                                   !.results = results,
                                   !.image = c.image + 1,
                                   !.attempt = 0, !.requests = 0, !.waits = <<>>]
               ELSE [c EXCEPT !.pc = "idle", !.served = served,
                                   !.results = results,
                                   !.outcome = "ok", !.result = results]

ClientOnly == UNCHANGED <<manifestVars, exportVars, proc>>

\* client.process_image(image)
CallProcessImage ==
    /\ client.pc = "idle"
    /\ \E image \in Images : client' = Begin("process_image", <<image>>)
    /\ ClientOnly

\* client.process_batch(images)
CallProcessBatch ==
    /\ client.pc = "idle"
    /\ \E images \in Batches : client' = Begin("process_batch", images)
    /\ ClientOnly

\* if not self.health_check(): raise ServerNotAvailableError
HealthCheck ==
    /\ client.pc = "health"
    /\ \E healthy \in BOOLEAN :
          client' = IF healthy THEN [client EXCEPT !.pc = "encode"]
                    ELSE EndImage(client, <<"failed", "ServerNotAvailableError">>,
                                  "ServerNotAvailableError", <<>>)
    /\ ClientOnly

\* image_to_base64(image): image.save raises OSError for an image it cannot
\* write as PNG.
Encode ==
    /\ client.pc = "encode"
    /\ \E saved \in BOOLEAN :
          client' = IF saved THEN [client EXCEPT !.pc = "attempt"]
                    ELSE EndImage(client, <<"failed", "OSError">>, "OSError", <<>>)
    /\ ClientOnly

\* One turn of the retry loop up to its return, its raise or its sleep.
Request ==
    /\ client.pc = "attempt"
    /\ client.attempt < client.max_retries
    /\ \E response \in Responses :
          LET image == client.images[client.image]
              asked == [client EXCEPT !.requests = client.requests + 1]
          IN client' =
                IF response \in {"text", "null"}
                THEN EndImage(asked, <<"reply", Content(image, response)>>, "ok",
                              Content(image, response))
                ELSE IF client.attempt = client.max_retries - 1
                THEN EndImage(asked, <<"failed", "APIError">>, "APIError", <<>>)
                ELSE [asked EXCEPT !.pc = "sleep"]
    /\ ClientOnly

\* time.sleep(wait_time), then the next attempt
Sleep ==
    /\ client.pc = "sleep"
    /\ client' = [client EXCEPT !.waits = Append(client.waits, WaitTime(client.attempt)),
                                !.attempt = client.attempt + 1,
                                !.pc = "attempt"]
    /\ ClientOnly

\* The loop has no turn to make (max_retries is 0): the raise after it.
LoopOver ==
    /\ client.pc = "attempt"
    /\ client.attempt >= client.max_retries
    /\ client' = EndImage(client, <<"failed", "APIError">>, "APIError", <<>>)
    /\ ClientOnly

InitClient ==
    /\ ManifestInit
    /\ tree = <<>>
    /\ dataset = NoFiles
    /\ exp = NoExport
    /\ client \in { IdleClient(n) : n \in 0..MaxRetries }
    /\ proc = NoRun(FALSE)

\* The steps of a call in progress.
ClientStep == HealthCheck \/ Encode \/ Request \/ Sleep \/ LoopOver

NextClient ==
    \/ CallProcessImage
    \/ CallProcessBatch
    \/ HealthCheck
    \/ Encode
    \/ Request
    \/ Sleep
    \/ LoopOver

SpecClient == InitClient /\ [][NextClient]_vars

\* A call in progress goes on: every request returns or raises within the
\* client's timeout, and every sleep ends.
SpecClientLive == SpecClient /\ WF_vars(ClientStep)

----------------------------------------------------------------------------
(* dataset/processor.py: process_subset over the rows of one split, each    *)
(* row with one image.  The generator makes one step for each row the       *)
(* caller asks for; a caller that stops asking leaves a partial run.        *)

\* The number of rows of the split.
MaxRows == 2

\* The markdown texts the OCR server gives for an image; it need not give
\* the same text twice.
OcrTexts == {"t1", "t2"}

ProcessorOnly == UNCHANGED <<manifestVars, exportVars, client>>

\* process_subset(subset_config): a new generator.
ProcessSubset ==
    /\ ~proc.running
    /\ proc' = [proc EXCEPT !.running = TRUE, !.row = 1, !.sent = {}, !.yielded = <<>>]
    /\ ProcessorOnly

\* save_markdown(result, out_path)
SaveMarkdown(files, row, result) ==
    [n \in DOMAIN files \cup {row} |-> IF n = row THEN result ELSE files[n]]

\* The body of the loop for one row: process_image on its image, then
\* save_markdown and the yield of the path, or the yield of the error.
\* config.overwrite is not read.
ProcessRow ==
    /\ proc.running
    /\ \E answered \in BOOLEAN : \E result \in OcrTexts :
          proc' = [proc EXCEPT
                     !.sent = proc.sent \cup {proc.row},
                     !.files = IF answered THEN SaveMarkdown(proc.files, proc.row, result)
                               ELSE proc.files,
                     !.yielded = Append(proc.yielded,
                                        IF answered THEN <<proc.row, "saved">>
                                        ELSE <<proc.row, "error">>),
                     !.row = proc.row + 1,
                     !.running = proc.row < MaxRows]
    /\ ProcessorOnly

\* The caller stops before the last row (the run is interrupted).
StopRun ==
    /\ proc.running
    /\ proc' = [proc EXCEPT !.running = FALSE]
    /\ ProcessorOnly

InitProcessor ==
    /\ ManifestInit
    /\ tree = <<>>
    /\ dataset = NoFiles
    /\ exp = NoExport
    /\ client = IdleClient(DefaultMaxRetries)
    /\ proc \in { NoRun(overwrite) : overwrite \in BOOLEAN }

NextProcessor ==
    \/ ProcessSubset
    \/ ProcessRow
    \/ StopRun

SpecProcessor == InitProcessor /\ [][NextProcessor]_vars

----------------------------------------------------------------------------
(* Properties *)

Loaded == mgr # <<>>

M == mgr[1]

Stages == {"download_status", "ocr_status", "transcription_status"}

\* The (resource, stage) pairs whose status is FAILED.
FailedPairs(resources) ==
    { p \in (DOMAIN resources) \X Stages : resources[p[1]][p[2]] = "FAILED" }

WithStatus(resources, stage, status) ==
    { k \in DOMAIN resources : resources[k][stage] = status }

CountersRescanned(m) ==
    /\ m.downloaded = Cardinality(WithStatus(m.resources, "download_status", "DOWNLOADED"))
    /\ m.ocr_completed = Cardinality(WithStatus(m.resources, "ocr_status", "COMPLETED"))
    /\ m.transcription_completed =
          Cardinality(WithStatus(m.resources, "transcription_status", "COMPLETED"))
    /\ m.failed = Cardinality(FailedPairs(m.resources))

Counters(m) ==
    <<m.total_resources, m.downloaded, m.ocr_completed, m.transcription_completed,
      m.failed>>

SavingOps ==
    {"create_manifest", "save_manifest", "add_resource", "update_resource_status",
     "mark_completed"}

MutatingOps == SavingOps \ {"save_manifest"}

Returned(op) == last.op = op /\ last.outcome = "ok"

\* C1: after every manifest operation the counters downloaded, ocr_completed,
\* transcription_completed and failed equal their recomputation from the
\* current resource mapping.  The code does not keep this: add_resource only
\* sets total_resources.
C1_CountersMatchResources == Loaded => CountersRescanned(M)

\* C2: total_resources is the size of the resource mapping, so re-adding a
\* URL that is already present does not change it.
C2_TotalIsMappingSize ==
    Loaded => M.total_resources = Cardinality(DOMAIN M.resources)

C2_Witness ==
    /\ Returned("add_resource")
    /\ last.overwrote
    /\ Cardinality(DOMAIN M.resources) = 2

\* C3: when a mutating call has returned, manifest.json holds the dump of the
\* manager's in-memory manifest.
C3_PersistedOnReturn ==
    (last.outcome = "ok" /\ last.op \in MutatingOps)
        => (Loaded /\ disk = <<"json", ModelDump(M)>>)

C3_Witness ==
    /\ Returned("update_resource_status")
    /\ M.downloaded = 1
    /\ M.last_updated > M.started_at

\* C4: a save followed by a load gives back the saved manifest: what
\* load_manifest parses from the file a successful save wrote is the manifest
\* in memory, a load_manifest right after a save leaves the manager's manifest
\* as it is, and save_manifest itself changes last_updated only, never
\* backwards.
C4_RoundTrip ==
    [][ /\ (last'.outcome = "ok" /\ last'.op \in SavingOps)
            => /\ disk'[1] = "json"
               /\ mgr' = << ParseManifest(disk'[2]) >>
        /\ (last'.outcome = "ok" /\ last'.op = "save_manifest")
            => /\ mgr'[1] = [mgr[1] EXCEPT !.last_updated = mgr'[1].last_updated]
               /\ mgr'[1].last_updated >= mgr[1].last_updated
        /\ (last'.outcome = "ok" /\ last'.op = "load_manifest"
              /\ last.outcome = "ok" /\ last.op \in SavingOps)
            => mgr' = mgr
      ]_vars

C4_Witness ==
    /\ Returned("load_manifest")
    /\ Cardinality(DOMAIN M.resources) = 2
    /\ \E k \in DOMAIN M.resources :
          /\ M.resources[k].ocr_status = None
          /\ M.resources[k].transcription_status = "FAILED"
          /\ M.resources[k].error_message # None
    /\ M.completed_at # NoneTime

\* C5: update_resource_status with a URL that is not a key of the resource
\* mapping raises KeyError and changes neither the manifest in memory
\* (last_updated included) nor the file.
C5_UnknownUrlChangesNothing ==
    [][ (last'.op = "update_resource_status" /\ last'.url # None /\ Loaded
           /\ last'.url \notin DOMAIN mgr[1].resources)
          => (last'.outcome = "KeyError" /\ mgr' = mgr /\ disk' = disk)
      ]_vars

C5_Witness ==
    /\ last.op = "update_resource_status"
    /\ last.outcome = "KeyError"
    /\ last.url = "https://a.gov"
    /\ Loaded
    /\ "https://a.gov/" \in DOMAIN M.resources

\* C6: whenever add_resource, update_resource_status or mark_completed raises,
\* the manifest in memory and the file are as they were before the call.  The
\* code changes the manifest before save_manifest writes, and truncates the
\* file before the write can fail.
C6_RaiseChangesNothing ==
    [][ (last'.op \in {"add_resource", "update_resource_status", "mark_completed"}
           /\ last'.outcome # "ok")
          => (mgr' = mgr /\ disk' = disk)
      ]_vars

\* C7: a successful update_resource_status sets, on the addressed resource,
\* exactly the fields whose argument is not None, keeps the others, and leaves
\* every other resource as it was.
C7_PartialUpdate ==
    [][ (last'.op = "update_resource_status" /\ last'.outcome = "ok")
          => LET u == last'.url
                 a == last'.args
                 old == mgr[1].resources
                 new == mgr'[1].resources
             IN /\ DOMAIN new = DOMAIN old
                /\ \A k \in DOMAIN old \ {u} : new[k] = old[k]
                /\ new[u].download_status =
                      IF a[1] # None THEN a[1] ELSE old[u].download_status
                /\ new[u].ocr_status = IF a[2] # None THEN a[2] ELSE old[u].ocr_status
                /\ new[u].transcription_status =
                      IF a[3] # None THEN a[3] ELSE old[u].transcription_status
                /\ new[u].error_message =
                      IF a[4] # None THEN a[4] ELSE old[u].error_message
                /\ new[u].url = old[u].url
                /\ new[u].resource_type = old[u].resource_type
      ]_vars

C7_Witness ==
    /\ Returned("update_resource_status")
    /\ last.args[1] = None /\ last.args[2] = "COMPLETED"
    /\ last.args[3] = None /\ last.args[4] = None
    /\ Cardinality(DOMAIN M.resources) = 2
    /\ M.resources[last.url].download_status = "DOWNLOADED"
    /\ M.resources[last.url].transcription_status = "FAILED"
    /\ M.resources[last.url].error_message = "timeout"

\* C8: right after a successful update_resource_status the counters are those
\* of a rescan of every resource, and failed counts (resource, stage) pairs, so
\* a resource failed at two stages counts twice.
C8_CountersAfterUpdate ==
    Returned("update_resource_status") => CountersRescanned(M)

C8_Witness ==
    /\ Returned("update_resource_status")
    /\ \E k \in DOMAIN M.resources :
          /\ M.resources[k].download_status = "FAILED"
          /\ M.resources[k].ocr_status = "FAILED"
    /\ M.failed >= 2
    /\ M.downloaded = 1

\* C9: after a successful add_resource(r) the entry for str(r.url) is r itself,
\* the entries of the other URLs are unchanged, and the file holds the result.
C9_AddReplaces ==
    [][ (last'.op = "add_resource" /\ last'.outcome = "ok")
          => LET r == last'.rec[1]
                 key == UrlStr(r.url)
                 old == mgr[1].resources
                 new == mgr'[1].resources
             IN /\ DOMAIN new = DOMAIN old \cup {key}
                /\ new[key] = r
                /\ \A k \in DOMAIN old \ {key} : new[k] = old[k]
                /\ disk' = <<"json", ModelDump(mgr'[1])>>
      ]_vars

\* A record that had its OCR completed and an error message has been replaced:
\* the counter still shows the completed OCR that no resource has any more.
C9_Witness ==
    /\ Returned("add_resource")
    /\ last.overwrote
    /\ M.ocr_completed = 1
    /\ \A k \in DOMAIN M.resources :
          M.resources[k].ocr_status = None /\ M.resources[k].error_message = None
    /\ Cardinality(DOMAIN M.resources) = 2

\* C10: a successful mark_completed sets completed_at to a time not earlier
\* than the one it held, and changes neither the resource mapping nor any of
\* the five counters.
C10_MarkCompletedIdempotent ==
    [][ (last'.op = "mark_completed" /\ last'.outcome = "ok")
          => /\ mgr'[1].completed_at # NoneTime
             /\ mgr'[1].completed_at >= mgr[1].completed_at
             /\ mgr'[1].resources = mgr[1].resources
             /\ Counters(mgr'[1]) = Counters(mgr[1])
      ]_vars

\* The second of two calls: completed_at was set before and is later now.
C10_Witness ==
    /\ Returned("mark_completed")
    /\ last.prev_completed # NoneTime
    /\ M.completed_at > last.prev_completed
    /\ DOMAIN M.resources # {}

\* C11: create_manifest returns and persists a manifest with no resources, the
\* five counters at 0, completed_at unset and started_at equal to last_updated.
\* The code does not keep the last part: save_manifest reads the clock again
\* and overwrites the last_updated that create_manifest had set.
C11_CreateZeroed ==
    Returned("create_manifest")
        => /\ Loaded
           /\ M.resources = NoResources
           /\ Counters(M) = <<0, 0, 0, 0, 0>>
           /\ M.completed_at = NoneTime
           /\ M.started_at = M.last_updated
           /\ disk = <<"json", ModelDump(M)>>

NeedsManifest ==
    {"save_manifest", "add_resource", "update_resource_status", "get_pending_resources",
     "get_downloaded_resources", "mark_completed", "get_statistics"}

\* C12: a manager on which neither create_manifest nor load_manifest has
\* succeeded holds no manifest; on it every other operation raises, touches no
\* file and leaves it without a manifest, and load_manifest of a directory
\* without manifest.json raises FileNotFoundError and leaves it so.  The code
\* does not keep the first part: a create_manifest whose save raises has
\* already set self.manifest.
C12_NoManifest ==
    [][ /\ (mgr = <<>> /\ last'.op \in NeedsManifest)
            => (last'.outcome = "ValueError" /\ mgr' = <<>> /\ disk' = disk)
        /\ (mgr = <<>> /\ last'.op = "load_manifest" /\ disk[1] = "absent")
            => (last'.outcome = "FileNotFoundError" /\ mgr' = <<>> /\ disk' = disk)
        /\ (mgr = <<>> /\ last'.op \in {"create_manifest", "load_manifest"}
              /\ last'.outcome # "ok")
            => mgr' = <<>>
      ]_vars

NoFailedStage(r) == \A stage \in Stages : r[stage] # "FAILED"

\* C13: get_statistics returns the five stored counters and pending =
\* total_resources - downloaded - failed, and changes neither the manifest in
\* memory nor the file; when every resource was added as PENDING, is PENDING
\* and has no failed stage, pending is total_resources.  The code does not keep the last part:
\* the counters it reads can be stale after add_resource has replaced a record.
C13_Statistics ==
    [][ (last'.op = "get_statistics" /\ last'.outcome = "ok")
          => LET m == mgr[1]
                 st == last'.result
             IN /\ mgr' = mgr
                /\ disk' = disk
                /\ <<st.total_resources, st.downloaded, st.ocr_completed,
                     st.transcription_completed, st.failed>> = Counters(m)
                /\ st.pending = m.total_resources - m.downloaded - m.failed
                /\ (\A k \in DOMAIN m.resources :
                        /\ m.resources[k].download_status = "PENDING"
                        /\ NoFailedStage(m.resources[k]))
                     => st.pending = st.total_resources
      ]_vars

\* C14: get_pending_resources returns exactly the resources whose
\* download_status is PENDING and get_downloaded_resources exactly those whose
\* download_status is DOWNLOADED, of the given resource_type when one is given:
\* a resource in another download status is in neither result, and neither
\* call changes the manifest in memory or the file.
C14_Filters ==
    [][ (last'.op \in {"get_pending_resources", "get_downloaded_resources"}
           /\ last'.outcome = "ok")
          => LET m == mgr[1]
                 wanted == IF last'.op = "get_pending_resources"
                           THEN "PENDING" ELSE "DOWNLOADED"
                 t == last'.resource_type
             IN /\ mgr' = mgr
                /\ disk' = disk
                /\ \A r \in last'.result : \E k \in DOMAIN m.resources : m.resources[k] = r
                /\ \A k \in DOMAIN m.resources :
                      m.resources[k] \in last'.result
                        <=> /\ m.resources[k].download_status = wanted
                            /\ (t = None \/ m.resources[k].resource_type = t)
      ]_vars

\* The pending videos are asked for while the PDF has failed to download: the
\* video is returned, the PDF is not.
C14_Witness ==
    /\ Returned("get_pending_resources")
    /\ last.resource_type = "VIDEO"
    /\ Cardinality(last.result) = 1
    /\ Cardinality(DOMAIN M.resources) = 2
    /\ M.resources[PdfUrl].download_status = "FAILED"
    /\ M.resources[PdfUrl] \notin last.result

\* C15: with two managers on the same manifest.json and their calls
\* interleaved in any order, the file after each successful save is the dump
\* of the manifest of the manager that made it, whatever the other manager
\* holds: a resource only the other manager knows is not in the file.
C15_LastWriterWins ==
    [][ (last'.op \in SavingOps /\ last'.outcome = "ok")
          => /\ disk' = <<"json", ModelDump(mgr'[1])>>
             /\ other' = other
             /\ other # <<>>
                  => \A k \in DOMAIN other[1].resources :
                        k \notin DOMAIN mgr'[1].resources
                          => k \notin DOMAIN disk'[2].resources
      ]_vars

\* A lost update: the other manager has added the PDF and recorded its
\* download, and the save of this manager's own addition has left a file
\* without the PDF.
C15_Witness ==
    /\ Returned("add_resource")
    /\ last.url = VideoUrl
    /\ other # <<>>
    /\ PdfUrl \in DOMAIN other[1].resources
    /\ other[1].resources[PdfUrl].download_status = "DOWNLOADED"
    /\ other[1].metadata = M.metadata /\ other[1].started_at = M.started_at
    /\ PdfUrl \notin DOMAIN disk[2].resources
    /\ VideoUrl \in DOMAIN disk[2].resources

\* C16: save_manifest overwrites manifest.json in place: from its open to the
\* end of its write the file holds no complete document, a load_manifest of
\* the other process at that point fails to parse it and loads nothing, and
\* a process ended at that point leaves the file that way.
C16_TornWrite ==
    [][ /\ last'.outcome = "writing" => disk'[1] = "partial"
        /\ (inflight # <<>> /\ inflight[1] = "other" /\ disk[1] = "partial"
              /\ last'.op = "load_manifest")
            => (last'.outcome = "JSONDecodeError" /\ mgr' = mgr /\ disk' = disk)
        /\ (last'.outcome = "interrupted" /\ disk[1] = "partial")
            => (disk'[1] = "partial" /\ inflight' = <<>>)
      ]_vars

\* The other process has opened manifest.json to save a manifest that had
\* been saved before, and the load of this process has failed on the file.
C16_Witness ==
    /\ last.op = "load_manifest"
    /\ last.outcome = "JSONDecodeError"
    /\ inflight # <<>>
    /\ inflight[1] = "other"
    /\ other # <<>>
    /\ DOMAIN other[1].resources # {}
    /\ disk[1] = "partial"

\* The splits a markdown file of the model can belong to.
SplitsOfTree == {"train", "test"}

\* The records of one split of a subset directory, in the order collected.
SplitRecords(dir, split) == RecordsOfSplit(collect_files(dir.files), split)

\* The number of files the last call has written for a split of a subset.
FilesWritten(subset, split) ==
    Cardinality({ k \in 1..Len(exp.written) :
                    exp.written[k].subset = subset /\ exp.written[k].split = split })

\* C17: export_all, when no write of a file fails for the file system, writes
\* for each split of estimated size S one file if S <= max_shard_size_mb and
\* floor(S / max_shard_size_mb) + 1 files otherwise.  The code does not keep
\* this for a split with fewer records than shards: its first shard is empty
\* and create_parquet raises on it.
C17_ShardCount ==
    (exp.op = "export_all" /\ exp.fault = 0)
        => \A d \in 1..Len(tree) : \A sp \in SplitsOfTree :
              LET records == SplitRecords(tree[d], sp)
                  S == MemoryUsage(records)
                  max == exp.max_shard_size_mb * MbUnits
              IN records # <<>>
                   => FilesWritten(tree[d].name, sp)
                        = IF S <= max THEN 1 ELSE (S \div max) + 1

\* C18: the shards export_all writes for a split of n records are slices of
\* the split's record list: shard i of shard_count holds the records from
\* i * q up to (i + 1) * q, with q = floor(n / shard_count), the last shard
\* holds all the records from (shard_count - 1) * q on, and when export_all
\* has returned the shards of a split, put one after the other, are the
\* split's record list.
C18_ContiguousShards ==
    exp.op = "export_all"
        => /\ \A k \in 1..Len(exp.written) :
                LET w == exp.written[k]
                    d == CHOOSE x \in 1..Len(tree) : tree[x].name = w.subset
                    records == SplitRecords(tree[d], w.split)
                IN Len(w.name) = 8
                     => LET i == w.name[5]
                            shard_count == w.name[7]
                            q == Len(records) \div shard_count
                        IN dataset[w.name] =
                             SubSeq(records, i * q + 1,
                                    IF i < shard_count - 1 THEN (i + 1) * q
                                    ELSE Len(records))
           /\ exp.outcome = "ok"
                => \A d \in 1..Len(tree) : \A sp \in SplitsOfTree :
                      LET records == SplitRecords(tree[d], sp)
                          shard_count == FilesWritten(tree[d].name, sp)
                      IN shard_count > 1
                           => Flatten([i \in 1..shard_count |->
                                         dataset[ShardName(tree[d].name, sp, i - 1,
                                                           shard_count)]])
                                = records

\* Three records in two shards: one record in the first shard, and the last
\* shard takes the two that remain.
C18_Witness ==
    /\ exp.op = "export_all"
    /\ exp.outcome = "ok"
    /\ FilesWritten("hearings", "train") = 2
    /\ Len(dataset[ShardName("hearings", "train", 0, 2)]) = 1
    /\ Len(dataset[ShardName("hearings", "train", 1, 2)]) = 2

\* C19: when the write of a file fails in export_all, the call still writes
\* the files of every other split and subset and returns the mapping of the
\* files written.  The code does not do this: export_all catches no
\* exception, so the first failing write ends it.
C19_ErrorDoesNotHalt ==
    (exp.op = "export_all" /\ exp.fault # 0)
        => LET writes == ExportWrites(tree, exp.max_shard_size_mb)
               failed == writes[exp.fault]
               others == { k \in 1..Len(writes) :
                             writes[k].subset # failed.subset
                               \/ writes[k].split # failed.split }
           IN others # {}
                => /\ \A k \in others :
                         \E j \in 1..Len(exp.written) : exp.written[j].name = writes[k].name
                   /\ exp.outcome = "ok"
                   /\ exp.result # None

\* C20: export_subset raises and writes no file when the subset directory
\* does not exist or no collected record is left after the split filter;
\* otherwise it writes one file, and no file it writes is empty.
C20_ExportSubsetFails ==
    [][ exp'.op = "export_subset"
          => LET dirs == { d \in 1..Len(tree) : tree[d].name = exp'.subset }
                 matching ==
                    { p \in dirs \X (1..MaxFiles + 1) :
                        /\ p[2] <= Len(tree[p[1]].files)
                        /\ \/ exp'.split = None
                           \/ FileRecord(tree[p[1]].files[p[2]]).split = exp'.split }
             IN /\ matching = {}
                     => /\ exp'.outcome = "ValueError"
                        /\ exp'.written = <<>>
                        /\ dataset' = dataset
                /\ matching # {}
                     => /\ exp'.outcome = "ok"
                        /\ Len(exp'.written) = 1
                        /\ Len(dataset'[exp'.written[1].name]) = Cardinality(matching)
      ]_vars

\* The subset has markdown files, none of them in the split asked for.
C20_Witness ==
    /\ exp.op = "export_subset"
    /\ exp.outcome = "ValueError"
    /\ exp.subset = "hearings"
    /\ exp.split = "test"
    /\ Len(tree[1].files) = 2
    /\ dataset = NoFiles

\* The files of the subset directory collect_files was called on.
Collected == tree[CHOOSE d \in 1..Len(tree) : tree[d].name = exp.subset].files

RECURSIVE Decimal(_)
\* The integer a string of decimal digits denotes.
Decimal(nnn) ==
    IF nnn = <<>> THEN 0
    ELSE 10 * Decimal(SubSeq(nnn, 1, Len(nnn) - 1))
         + (IF nnn[Len(nnn)] = "7" THEN 7 ELSE 0)

\* The positions k of a stem at which it reads <base>_page<NNN>: "_page" at
\* k, and after it decimal digits only, at least one.
PagePattern(stem) ==
    { k \in 1..Len(stem) - 1 :
        /\ stem[k] = "_page"
        /\ \A j \in k + 1..Len(stem) : stem[j] \in {"0", "7"} }

\* C21: the record of a collected file named <base>_page<NNN>.<ext>, NNN
\* decimal digits, has page_number NNN read as an integer and source_file
\* <base>, the stem before its last "_page".
C21_PageNumberParsed ==
    exp.op = "collect_files" =>
        \A i \in 1..Len(Collected) :
            LET parts == Collected[i].parts
                stem == Stem(parts[Len(parts)])
            IN \A k \in PagePattern(stem) :
                  /\ exp.result[i].page_number
                        = << Decimal(SubSeq(stem, k + 1, Len(stem))) >>
                  /\ exp.result[i].source_file = SubSeq(stem, 1, k - 1)

\* A page number written with a leading zero: a_page07.md is page 7 of a.
C21_Witness ==
    /\ exp.op = "collect_files"
    /\ Collected[1].parts = << <<"a", "_page", "0", "7", ".md">> >>
    /\ exp.result[1].page_number = <<7>>
    /\ exp.result[1].source_file = <<"a">>

\* C22: the record of a collected file whose name is not of the form
\* <base>_page<NNN>.<ext> has page_number null and source_file the whole
\* stem.  The code does not keep this: int() reads more than decimal digits
\* (a sign, spaces around the number, underscores between digits).
C22_OtherNamesNull ==
    exp.op = "collect_files" =>
        \A i \in 1..Len(Collected) :
            LET parts == Collected[i].parts
                stem == Stem(parts[Len(parts)])
            IN PagePattern(stem) = {} =>
                  /\ exp.result[i].page_number = <<>>
                  /\ exp.result[i].source_file = stem

\* C23: the record of a collected file has for split the first part of its
\* path under the subset directory when the path has two parts or more and
\* "train" otherwise, for id and file_path that path, and for text_length the
\* number of characters of its text.
C23_SplitAndPath ==
    exp.op = "collect_files" =>
        /\ Len(exp.result) = Len(Collected)
        /\ \A i \in 1..Len(Collected) :
              LET file == Collected[i]
                  r == exp.result[i]
              IN /\ r.split = (IF Len(file.parts) >= 2 THEN file.parts[1] ELSE "train")
                 /\ r.id = file.parts
                 /\ r.file_path = file.parts
                 /\ r.text = file.text
                 /\ r.text_length = Len(r.text)

\* A file two directories down: its split is the outer directory.
C23_Witness ==
    /\ exp.op = "collect_files"
    /\ Len(Collected[1].parts) = 3
    /\ exp.result[1].split = "validation"
    /\ exp.result[1].text_length = 2


Backoff(k) == [j \in 1..k |-> Pow2(j - 1)]

\* What holds of process_image at every step and at its end.
RetriesBounded ==
    /\ client.requests <= client.max_retries
    /\ client.pc \in {"health", "encode"} => client.requests = 0 /\ client.waits = <<>>
    /\ client.pc = "attempt" =>
          /\ client.requests = client.attempt
          /\ client.waits = Backoff(client.attempt)
    /\ client.pc = "sleep" =>
          /\ client.requests = client.attempt + 1
          /\ client.attempt < client.max_retries - 1
          /\ client.waits = Backoff(client.attempt)
    /\ (client.op = "process_image" /\ client.pc = "idle") =>
          /\ client.outcome = "ok" =>
                /\ client.requests >= 1
                /\ client.waits = Backoff(client.requests - 1)
                /\ client.served = << <<"reply", client.result>> >>
          /\ (client.outcome = "APIError" /\ client.max_retries >= 1) =>
                /\ client.requests = client.max_retries
                /\ client.waits = Backoff(client.max_retries - 1)
          /\ client.outcome = "ServerNotAvailableError" =>
                /\ client.requests = 0
                /\ client.waits = <<>>
          /\ client.outcome \in {"ok", "APIError", "ServerNotAvailableError", "OSError"}

\* C26: process_image makes at most max_retries completion requests; it
\* returns the content of the first response that succeeds; it waits 2^k
\* seconds after its failed attempt k when another attempt follows, and raises
\* APIError after the last failed attempt without a wait; it makes no request
\* when the health check fails; and every call of it comes to an end.
C26_RetryBackoff ==
    /\ []RetriesBounded
    /\ (client.op = "process_image" /\ client.pc # "idle") ~> (client.pc = "idle")

\* Two attempts fail, the waits are 1 and 2 seconds, and the third attempt
\* gives the text.
C26_Witness ==
    /\ client.op = "process_image"
    /\ client.pc = "idle"
    /\ client.outcome = "ok"
    /\ client.requests = 3
    /\ client.waits = <<1, 2>>
    /\ client.result = <<"text of", "p1">>


\* C25: with overwrite false, process_subset does not send the image of a
\* row whose markdown file exists to the OCR server and leaves the file as
\* it is.  The code does not: process_subset never reads config.overwrite.
C25_SkipsExisting ==
    [][ ( /\ proc.running
          /\ ~proc.overwrite
          /\ proc.row \in DOMAIN proc.files
          /\ proc'.row = proc.row + 1 )
        => ( /\ proc.row \notin proc'.sent
             /\ proc'.files = proc.files ) ]_vars


\* The files under dataset/ whose name begins with the name of the subset.
FilesOfSubset(files, subset) == { n \in DOMAIN files : n[1] = subset }

\* The files a result of export_all lists for the subset.
FilesReturned(result, subset) ==
    IF subset \in DOMAIN result
    THEN { result[subset][k] : k \in 1..Len(result[subset]) }
    ELSE {}

\* C27: after export_all has run again on the same output directory, the
\* files under dataset/ for a subset are the files the latest run returned
\* for it.  The code does not keep this: it removes no file, so the files of
\* an earlier run under other names stay.
C27_NoStaleFiles ==
    [][ ( /\ exp.op = "export_all" /\ exp.outcome = "ok"
          /\ exp'.op = "export_all" /\ exp'.outcome = "ok" )
        => \A d \in 1..Len(tree) :
              FilesOfSubset(dataset', tree[d].name)
                 = FilesReturned(exp'.result, tree[d].name) ]_vars

\* C28: every shard export_all makes for a sharded split, and hands to
\* create_parquet, holds a record.  The code does not keep this: with fewer
\* records than shards shard_size is 0 and the first shard is empty.
C28_ShardsNonEmpty ==
    exp.op = "export_all" =>
        LET writes == ExportWrites(tree, exp.max_shard_size_mb)
            made == Len(exp.written) + (IF exp.outcome = "ok" THEN 0 ELSE 1)
        IN \A k \in 1..made :
              Len(writes[k].name) = Len(ShardName("s", "train", 0, 1))
                 => writes[k].records # <<>>


\* C29: when every counter of the manifest equals its recomputation from the
\* resource mapping, the pending value get_statistics returns is not
\* negative.  The code does not keep this: failed counts a resource once for
\* each of its failed stages, and a downloaded resource whose OCR failed is
\* counted in downloaded and in failed.
C29_PendingNonNegative ==
    ( /\ Returned("get_statistics")
      /\ Loaded
      /\ CountersRescanned(M)
      /\ M.total_resources = Cardinality(DOMAIN M.resources) )
    => last.result.pending >= 0


\* C30: create_manifest replaces manifest.json whatever it holds: when it has
\* returned, the manifest in the file has no resource, counters of zero and
\* no completed_at, and it is the manifest of the manager.  load_manifest
\* leaves the file as it is and takes the manifest it holds.
C30_CreateReplaces ==
    [][ /\ (last'.op = "create_manifest" /\ last'.outcome = "ok")
            => /\ disk'[1] = "json"
               /\ DOMAIN ParseManifest(disk'[2]).resources = {}
               /\ Counters(ParseManifest(disk'[2])) = <<0, 0, 0, 0, 0>>
               /\ ParseManifest(disk'[2]).completed_at = NoneTime
               /\ mgr' = << ParseManifest(disk'[2]) >>
        /\ (last'.op = "load_manifest" /\ last'.outcome = "ok")
            => /\ disk' = disk
               /\ mgr' = << ParseManifest(disk[2]) >>
      ]_vars

\* The other process has added resources to the manifest of the directory;
\* the running process has then called create_manifest, and the file holds
\* no resource.
C30_Witness ==
    /\ Returned("create_manifest")
    /\ other # <<>>
    /\ DOMAIN other[1].resources # {}
    /\ disk[1] = "json"
    /\ DOMAIN disk[2].resources = {}


====
